---- MODULE Spec2Model ----
(***************************************************************************)
(* A model of the Atlas backend gateway: the document directory            *)
(* (DocumentsService), the chat session store and streaming proxy          *)
(* (ChatService, ChatController) and the Logos client (LogosService),      *)
(* over a relational store (Document, ChatSession, ChatMessage) and a      *)
(* simulated Logos service.                                                *)
(*                                                                         *)
(* A request handler is a sequence of steps, one per await: what runs      *)
(* between two awaits is one action.  The document handlers are taken      *)
(* whole, one action each.                                                 *)
(***************************************************************************)
EXTENDS Naturals, Integers, Sequences, FiniteSets, TLC

VARIABLES
    documents,   \* table Document: id -> row
    sessions,    \* table ChatSession: set of rows
    messages,    \* table ChatMessage: set of rows
    nextId,      \* source of fresh row ids (uuid)
    now,         \* the store's clock, in milliseconds (TIMESTAMP(3))
    remoteDocs,  \* the Logos service's documents: logos id -> record
    remoteLog,   \* the POST /chat requests the Logos service has received, in order
    inv,         \* the chat invocations: process -> its position and locals
    last,        \* outcome of the latest document-directory handler
    prev         \* outcome of the handler before it

vars == <<documents, sessions, messages, nextId, now, remoteDocs, remoteLog, inv, last, prev>>

-----------------------------------------------------------------------------
(* Bounds of the model *)

\* the number of chunks a simulated remote stream emits at most
MaxChunks == 3

\* the number of clock ticks (milliseconds) the store's clock advances at most
MaxClock == 1

-----------------------------------------------------------------------------
(* Values *)

NULL == "null"

Users == {"u1", "u2"}

DocIds == {"d1", "d2"}

LogosIds == {"L1", "L2"}

Procs == {"p1", "p2"}

\* enum DocumentStatus
DocumentStatus == {"PENDING", "PROCESSING", "COMPLETED", "FAILED"}

COMPLETED == "COMPLETED"

PENDING == "PENDING"

-----------------------------------------------------------------------------
(* Bytes and characters of a chat stream.  A chunk is a sequence of byte   *)
(* runs; an ASCII run is a token that decodes to itself, and the bytes of  *)
(* one two-byte UTF-8 character (0xC3 0xA9) are modelled one by one.       *)

LF == "\n"

DataPrefix == "data: "

ContentHel == "\"content\":\"Hel\""

ContentLo == "\"content\":\"lo\""

ContentEmpty == "\"content\":\"\""

IdsAB == "\"chunk_ids\":[\"a\",\"b\"]"

IdsC == "\"chunk_ids\":[\"c\"]"

IdsEmpty == "\"chunk_ids\":[]"

OtherField == "\"done\":true"

FieldTokens == {ContentHel, ContentLo, ContentEmpty, IdsAB, IdsC, IdsEmpty, OtherField}

\* the key of a JSON member
FieldKey(t) ==
    IF t \in {ContentHel, ContentLo, ContentEmpty} THEN "content"
    ELSE IF t \in {IdsAB, IdsC, IdsEmpty} THEN "chunk_ids"
    ELSE "done"

\* the string value of a "content" member
FieldString(t) ==
    IF t = ContentHel THEN "Hel" ELSE IF t = ContentLo THEN "lo" ELSE ""

\* the list value of a "chunk_ids" member
FieldList(t) ==
    IF t = IdsAB THEN <<"a", "b">> ELSE IF t = IdsC THEN <<"c">> ELSE <<>>

\* Buffer.toString(): UTF-8 decoding of one chunk.  0xC3 followed by a
\* continuation byte is one character; a lead byte without its continuation
\* and a continuation byte without its lead decode to U+FFFD.
RECURSIVE toString(_)
toString(bytes) ==
    IF bytes = <<>> THEN <<>>
    ELSE IF Head(bytes) = "0xC3" THEN
        IF Len(bytes) >= 2 /\ bytes[2] = "0xA9"
        THEN <<"U+00E9">> \o toString(SubSeq(bytes, 3, Len(bytes)))
        ELSE <<"U+FFFD">> \o toString(Tail(bytes))
    ELSE IF Head(bytes) = "0xA9" THEN <<"U+FFFD">> \o toString(Tail(bytes))
    ELSE <<Head(bytes)>> \o toString(Tail(bytes))

\* res.write(string): UTF-8 encoding of a string
RECURSIVE write(_)
write(chars) ==
    IF chars = <<>> THEN <<>>
    ELSE IF Head(chars) = "U+00E9" THEN <<"0xC3", "0xA9">> \o write(Tail(chars))
    ELSE IF Head(chars) = "U+FFFD" THEN <<"0xEF", "0xBF", "0xBD">> \o write(Tail(chars))
    ELSE <<Head(chars)>> \o write(Tail(chars))

\* String.split('\n')
RECURSIVE split(_)
split(chars) ==
    IF \A i \in 1..Len(chars) : chars[i] # LF THEN <<chars>>
    ELSE LET i == CHOOSE k \in 1..Len(chars) :
                      chars[k] = LF /\ \A j \in 1..(k - 1) : chars[j] # LF
         IN <<SubSeq(chars, 1, i - 1)>> \o split(SubSeq(chars, i + 1, Len(chars)))

\* line.startsWith('data: ')
startsWith(line) == Len(line) >= 1 /\ line[1] = DataPrefix

\* JSON.parse succeeds on an object: "{" members separated by "," "}"
IsObject(ts) ==
    /\ Len(ts) >= 2
    /\ ts[1] = "{"
    /\ ts[Len(ts)] = "}"
    /\ LET n == Len(ts) - 2
       IN /\ n = 0 \/ n % 2 = 1
          /\ \A i \in 1..n : IF i % 2 = 1 THEN ts[i + 1] \in FieldTokens ELSE ts[i + 1] = ","

\* the member of the parsed object with key k: the last one, as JSON.parse keeps it
Member(ts, k) ==
    LET idx == {i \in 2..(Len(ts) - 1) : ts[i] \in FieldTokens /\ FieldKey(ts[i]) = k}
    IN IF idx = {} THEN NULL
       ELSE ts[CHOOSE i \in idx : \A j \in idx : j <= i]

\* one line of a chunk fed to the accumulator acc = [fullResponse, chunkIds]
parseLine(acc, line) ==
    IF ~startsWith(line) THEN acc
    ELSE LET payload == Tail(line)          \* line.slice(6)
         IN IF ~IsObject(payload) THEN acc  \* JSON.parse throws: ignored
            ELSE LET c == Member(payload, "content")
                     k == Member(payload, "chunk_ids")
                     full == IF c # NULL /\ FieldString(c) # ""
                             THEN acc.fullResponse \o FieldString(c)
                             ELSE acc.fullResponse
                     ids == IF k # NULL THEN FieldList(k) ELSE acc.chunkIds
                 IN [fullResponse |-> full, chunkIds |-> ids]

RECURSIVE parseLines(_, _)
parseLines(acc, lines) ==
    IF lines = <<>> THEN acc
    ELSE parseLines(parseLine(acc, Head(lines)), Tail(lines))

\* the body of the for-await loop of streamChat for one chunk (a string)
parseChunk(acc, chunk) == parseLines(acc, split(chunk))

-----------------------------------------------------------------------------
(* Exceptions *)

NoError == [kind |-> "none", message |-> ""]

NotFoundException == [kind |-> "NotFoundException", message |-> "Document not found"]

ForbiddenException == [kind |-> "ForbiddenException", message |-> "Access denied"]

NotReadyException(status) ==
    [kind |-> "BadRequestException", message |-> "Document is not ready. Current status: " \o status]

NoReferenceException ==
    [kind |-> "BadRequestException", message |-> "Document has no Logos reference"]

\* Prisma P2002: the unique index ChatSession_document_id_key rejects the insert
UniqueViolation ==
    [kind |-> "P2002", message |-> "Unique constraint failed on the fields: (document_id)"]

\* Prisma P2003: a foreign key (ChatSession_document_id_fkey,
\* ChatMessage_session_id_fkey) rejects the insert
ForeignKeyViolation == [kind |-> "P2003", message |-> "Foreign key constraint failed"]

\* what the remote stream raises when it breaks mid-flight
Aborted == [kind |-> "Error", message |-> "aborted"]

StreamErrors == {Aborted, [kind |-> "Error", message |-> "read ECONNRESET"]}

-----------------------------------------------------------------------------
(* The store *)

\* prisma.chatSession.findUnique({ where: { document_id } })
SessionsOf(d) == {s \in sessions : s.document_id = d}

\* the rows of ChatMessage of a session
MessagesOf(sid) == {m \in messages : m.session_id = sid}

\* orderBy: { created_at: 'asc' }: every order of the rows the store may
\* return, rows of equal created_at in either order
OrderedBy(rows) ==
    {f \in [1..Cardinality(rows) -> rows] :
        /\ \A i, j \in 1..Cardinality(rows) : i # j => f[i] # f[j]
        /\ \A i, j \in 1..Cardinality(rows) : i < j => f[i].created_at <= f[j].created_at}

\* history.messages.slice(0, -1)
sliceButLast(s) == IF Len(s) = 0 THEN <<>> ELSE SubSeq(s, 1, Len(s) - 1)

\* .map((m) => ({ role: m.role, content: m.content }))
mapRoleContent(s) == [i \in 1..Len(s) |-> [role |-> s[i].role, content |-> s[i].content]]

\* validateDocumentAccess without the ownership check
validateDocumentAccess_NoOwnerCheck(userId, documentId) ==
    IF documentId \notin DOMAIN documents THEN NotFoundException
    ELSE IF documents[documentId].status # COMPLETED
         THEN NotReadyException(documents[documentId].status)
    ELSE IF documents[documentId].logos_id = NULL THEN NoReferenceException
    ELSE NoError

\* validateDocumentAccess without the status check
validateDocumentAccess_NoStatusCheck(userId, documentId) ==
    IF documentId \notin DOMAIN documents THEN NotFoundException
    ELSE IF documents[documentId].user_id # userId THEN ForbiddenException
    ELSE IF documents[documentId].logos_id = NULL THEN NoReferenceException
    ELSE NoError

\* ChatService.validateDocumentAccess: the exception it throws, or NoError
validateDocumentAccess(userId, documentId) ==
    IF documentId \notin DOMAIN documents THEN NotFoundException
    ELSE IF documents[documentId].user_id # userId THEN ForbiddenException
    ELSE IF documents[documentId].status # COMPLETED
         THEN NotReadyException(documents[documentId].status)
    ELSE IF documents[documentId].logos_id = NULL THEN NoReferenceException
    ELSE NoError

-----------------------------------------------------------------------------
(* One chat invocation: ChatController.chat driving ChatService.streamChat *)
(* driving LogosService.chatStream                                         *)

Idle ==
    [pc |-> "idle", userId |-> NULL, document_id |-> NULL, message |-> NULL,
     logos_id |-> NULL, role |-> NULL, session_id |-> 0, history |-> <<>>,
     fullResponse |-> "", chunkIds |-> <<>>,
     remote |-> "none", emitted |-> <<>>, raised |-> NoError,
     headersSent |-> FALSE, written |-> <<>>, ended |-> FALSE,
     disconnectedAt |-> -1, consumedAtDisconnect |-> -1,
     error |-> NoError, saved |-> {}]

\* res.write of the SSE event 'error' with data JSON.stringify({ error: error.message })
ErrorEvent(msg) ==
    <<"event: error", LF, DataPrefix, "{", "\"error\":\"" \o msg \o "\"", "}", LF, LF>>

\* the catch block of ChatController.chat
Catch(r, err) ==
    [r EXCEPT !.pc = "done", !.error = err,
              !.written = Append(@, ErrorEvent(err.message)), !.ended = TRUE]

\* the generator returns, the for-await of the controller ends: res.end()
Return(r) == [r EXCEPT !.pc = "done", !.ended = TRUE]

\* POST /chat arrives: the controller sets and flushes the SSE headers and
\* starts iterating streamChat
Chat(p, userId, documentId, message) ==
    /\ inv[p].pc = "idle"
    /\ inv' = [inv EXCEPT ![p] = [Idle EXCEPT !.pc = "validate", !.userId = userId,
                                              !.document_id = documentId,
                                              !.message = message,
                                              !.headersSent = TRUE]]
    /\ UNCHANGED <<documents, sessions, messages, nextId, now, remoteDocs, remoteLog, last, prev>>

\* Validate with the user message not saved before the stream is opened
Validate_OpensFirst(p) ==
    /\ inv[p].pc = "validate"
    /\ LET err == validateDocumentAccess(inv[p].userId, inv[p].document_id)
       IN inv' = [inv EXCEPT ![p] =
                    IF err # NoError THEN Catch(@, err)
                    ELSE [@ EXCEPT !.pc = "historyValidate", !.role = "user",
                                   !.logos_id = documents[inv[p].document_id].logos_id]]
    /\ UNCHANGED <<documents, sessions, messages, nextId, now, remoteDocs, remoteLog, last, prev>>

\* streamChat: await this.validateDocumentAccess(...)
Validate(p) ==
    /\ inv[p].pc = "validate"
    /\ LET err == validateDocumentAccess(inv[p].userId, inv[p].document_id)
       IN inv' = [inv EXCEPT ![p] =
                    IF err # NoError THEN Catch(@, err)
                    ELSE [@ EXCEPT !.pc = "findSession", !.role = "user",
                                   !.logos_id = documents[inv[p].document_id].logos_id]]
    /\ UNCHANGED <<documents, sessions, messages, nextId, now, remoteDocs, remoteLog, last, prev>>

\* getOrCreateSession: await prisma.chatSession.findUnique(...)
FindSession(p) ==
    /\ inv[p].pc = "findSession"
    /\ LET found == SessionsOf(inv[p].document_id)
       IN inv' = [inv EXCEPT ![p] =
                    IF found = {} THEN [@ EXCEPT !.pc = "createSession"]
                    ELSE [@ EXCEPT !.pc = "createMessage",
                                   !.session_id = (CHOOSE s \in found : TRUE).id]]
    /\ UNCHANGED <<documents, sessions, messages, nextId, now, remoteDocs, remoteLog, last, prev>>

\* CreateSession with no foreign key from ChatSession to Document
CreateSession_NoForeignKey(p) ==
    /\ inv[p].pc = "createSession"
    /\ IF SessionsOf(inv[p].document_id) # {}
       THEN /\ inv' = [inv EXCEPT ![p] = Catch(@, UniqueViolation)]
            /\ UNCHANGED <<sessions, nextId>>
       ELSE /\ sessions' = sessions \cup {[id |-> nextId, document_id |-> inv[p].document_id]}
            /\ nextId' = nextId + 1
            /\ inv' = [inv EXCEPT ![p] = [@ EXCEPT !.pc = "createMessage", !.session_id = nextId]]
    /\ UNCHANGED <<documents, messages, now, remoteDocs, remoteLog, last, prev>>

\* getOrCreateSession: await prisma.chatSession.create(...), under the unique
\* index on document_id and the foreign key to Document
CreateSession(p) ==
    /\ inv[p].pc = "createSession"
    /\ IF SessionsOf(inv[p].document_id) # {}
       THEN /\ inv' = [inv EXCEPT ![p] = Catch(@, UniqueViolation)]
            /\ UNCHANGED <<sessions, nextId>>
       ELSE IF inv[p].document_id \notin DOMAIN documents
       THEN /\ inv' = [inv EXCEPT ![p] = Catch(@, ForeignKeyViolation)]
            /\ UNCHANGED <<sessions, nextId>>
       ELSE /\ sessions' = sessions \cup {[id |-> nextId, document_id |-> inv[p].document_id]}
            /\ nextId' = nextId + 1
            /\ inv' = [inv EXCEPT ![p] = [@ EXCEPT !.pc = "createMessage", !.session_id = nextId]]
    /\ UNCHANGED <<documents, messages, now, remoteDocs, remoteLog, last, prev>>

\* saveMessage: prisma.chatMessage.create(...); after the user message the
\* generator goes on to the history, after the assistant message it returns
CreateMessage(p) ==
    /\ inv[p].pc = "createMessage"
    /\ IF \A s \in sessions : s.id # inv[p].session_id
       THEN /\ inv' = [inv EXCEPT ![p] = Catch(@, ForeignKeyViolation)]
            /\ UNCHANGED <<messages, nextId>>
       ELSE /\ messages' = messages \cup
                  {[id |-> nextId, session_id |-> inv[p].session_id, role |-> inv[p].role,
                    content |-> IF inv[p].role = "user" THEN inv[p].message
                                ELSE inv[p].fullResponse,
                    chunk_ids |-> IF inv[p].role = "user" THEN <<>> ELSE inv[p].chunkIds,
                    created_at |-> now]}
            /\ nextId' = nextId + 1
            /\ inv' = [inv EXCEPT ![p] =
                         IF inv[p].role = "user"
                         THEN [@ EXCEPT !.pc = "historyValidate", !.saved = @ \cup {nextId}]
                         ELSE Return([@ EXCEPT !.saved = @ \cup {nextId}])]
    /\ UNCHANGED <<documents, sessions, now, remoteDocs, remoteLog, last, prev>>

\* streamChat -> getChatHistory: await this.validateDocumentAccess(...)
HistoryValidate(p) ==
    /\ inv[p].pc = "historyValidate"
    /\ LET err == validateDocumentAccess(inv[p].userId, inv[p].document_id)
       IN inv' = [inv EXCEPT ![p] =
                    IF err # NoError THEN Catch(@, err)
                    ELSE [@ EXCEPT !.pc = "historyRead"]]
    /\ UNCHANGED <<documents, sessions, messages, nextId, now, remoteDocs, remoteLog, last, prev>>

\* streamChat -> getChatHistory: the session with its messages by created_at,
\* then slice(0, -1) and map to { role, content }
HistoryRead(p) ==
    /\ inv[p].pc = "historyRead"
    /\ LET found == SessionsOf(inv[p].document_id)
       IN IF found = {}
          THEN inv' = [inv EXCEPT ![p] = [@ EXCEPT !.pc = "open", !.history = <<>>]]
          ELSE \E rows \in OrderedBy(MessagesOf((CHOOSE s \in found : TRUE).id)) :
                  inv' = [inv EXCEPT ![p] =
                            [@ EXCEPT !.pc = "open",
                                      !.history = mapRoleContent(sliceButLast(rows))]]
    /\ UNCHANGED <<documents, sessions, messages, nextId, now, remoteDocs, remoteLog, last, prev>>

\* chatStream: await firstValueFrom(httpService.post('/chat', ...)) answers
\* with a response stream
OpenStream(p) ==
    /\ inv[p].pc = "open"
    /\ remoteLog' = Append(remoteLog,
            [by |-> p, document_id |-> inv[p].logos_id, message |-> inv[p].message,
             conversation_history |-> inv[p].history])
    /\ inv' = [inv EXCEPT ![p] = [@ EXCEPT !.pc = "streaming", !.remote = "open"]]
    /\ UNCHANGED <<documents, sessions, messages, nextId, now, remoteDocs, last, prev>>

\* chatStream: the POST reaches the remote, which answers with an error status
OpenRejected(p) ==
    /\ inv[p].pc = "open"
    /\ remoteLog' = Append(remoteLog,
            [by |-> p, document_id |-> inv[p].logos_id, message |-> inv[p].message,
             conversation_history |-> inv[p].history])
    /\ inv' = [inv EXCEPT ![p] =
            Catch([@ EXCEPT !.remote = "refused"],
                  [kind |-> "AxiosError", message |-> "Request failed with status code 500"])]
    /\ UNCHANGED <<documents, sessions, messages, nextId, now, remoteDocs, last, prev>>

\* chatStream: the POST gets no response at all
OpenUnreachable(p) ==
    /\ inv[p].pc = "open"
    /\ inv' = [inv EXCEPT ![p] =
            Catch([@ EXCEPT !.remote = "unreachable"],
                  [kind |-> "AxiosError", message |-> "connect ECONNREFUSED"])]
    /\ UNCHANGED <<documents, sessions, messages, nextId, now, remoteDocs, remoteLog, last, prev>>

\* One turn of the three nested loops for the chunk c (bytes) the remote
\* emits: chatStream yields chunk.toString(), streamChat feeds it to the
\* accumulator and yields it, the controller writes it to the response
StreamChunk(p, c) ==
    /\ inv[p].pc = "streaming"
    /\ Len(inv[p].emitted) < MaxChunks
    /\ LET chunk == toString(c)
           acc == parseChunk([fullResponse |-> inv[p].fullResponse,
                              chunkIds |-> inv[p].chunkIds], chunk)
       IN inv' = [inv EXCEPT ![p] =
                    [@ EXCEPT !.emitted = Append(@, c),
                              !.fullResponse = acc.fullResponse,
                              !.chunkIds = acc.chunkIds,
                              !.written = Append(@, write(chunk))]]
    /\ UNCHANGED <<documents, sessions, messages, nextId, now, remoteDocs, remoteLog, last, prev>>

\* StreamEnd with the assistant message saved whether or not any content
\* was accumulated
StreamEnd_AlwaysSaves(p) ==
    /\ inv[p].pc = "streaming"
    /\ inv' = [inv EXCEPT ![p] =
            [@ EXCEPT !.pc = "findSession", !.role = "assistant", !.remote = "closed"]]
    /\ UNCHANGED <<documents, sessions, messages, nextId, now, remoteDocs, remoteLog, last, prev>>

\* StreamEnd with the response ended as soon as the remote closes, the
\* assistant message saved afterwards
StreamEnd_EndsFirst(p) ==
    /\ inv[p].pc = "streaming"
    /\ inv' = [inv EXCEPT ![p] =
            IF inv[p].fullResponse # ""
            THEN [@ EXCEPT !.pc = "findSession", !.role = "assistant", !.remote = "closed",
                           !.ended = TRUE]
            ELSE Return([@ EXCEPT !.remote = "closed"])]
    /\ UNCHANGED <<documents, sessions, messages, nextId, now, remoteDocs, remoteLog, last, prev>>

\* The remote closes the response: the loops end, and streamChat saves the
\* assistant message if (fullResponse), else returns
StreamEnd(p) ==
    /\ inv[p].pc = "streaming"
    /\ inv' = [inv EXCEPT ![p] =
            IF inv[p].fullResponse # ""
            THEN [@ EXCEPT !.pc = "findSession", !.role = "assistant", !.remote = "closed"]
            ELSE Return([@ EXCEPT !.remote = "closed"])]
    /\ UNCHANGED <<documents, sessions, messages, nextId, now, remoteDocs, remoteLog, last, prev>>

\* StreamFail with a catch block that ends the response without the event
StreamFail_NoEvent(p, err) ==
    /\ inv[p].pc = "streaming"
    /\ inv' = [inv EXCEPT ![p] =
            [@ EXCEPT !.remote = "failed", !.raised = err, !.pc = "done", !.error = err,
                      !.ended = TRUE]]
    /\ UNCHANGED <<documents, sessions, messages, nextId, now, remoteDocs, remoteLog, last, prev>>

\* StreamFail with one retry: the first failure of the remote stream sends
\* the invocation back to open the stream again
StreamFail_Retries(p, err) ==
    /\ inv[p].pc = "streaming"
    /\ inv' = [inv EXCEPT ![p] =
            IF Cardinality({i \in 1..Len(remoteLog) : remoteLog[i].by = p}) < 2
            THEN [@ EXCEPT !.pc = "open"]
            ELSE Catch([@ EXCEPT !.remote = "failed", !.raised = err], err)]
    /\ UNCHANGED <<documents, sessions, messages, nextId, now, remoteDocs, remoteLog, last, prev>>

\* The remote stream raises mid-flight: the error leaves both generators and
\* reaches the catch block of the controller
StreamFail(p, err) ==
    /\ inv[p].pc = "streaming"
    /\ inv' = [inv EXCEPT ![p] = Catch([@ EXCEPT !.remote = "failed", !.raised = err], err)]
    /\ UNCHANGED <<documents, sessions, messages, nextId, now, remoteDocs, remoteLog, last, prev>>

\* The caller closes its connection.  The controller registers no listener
\* on the request or the response, and res.write on a closed connection does
\* not throw: no local of the invocation changes.
Disconnect(p) ==
    /\ inv[p].pc \notin {"idle", "done"}
    /\ inv[p].disconnectedAt = -1
    /\ inv' = [inv EXCEPT ![p] =
            [@ EXCEPT !.disconnectedAt = Len(inv[p].written),
                      !.consumedAtDisconnect = Len(inv[p].emitted)]]
    /\ UNCHANGED <<documents, sessions, messages, nextId, now, remoteDocs, remoteLog, last, prev>>

\* what reached the caller: the writes made while it was connected
Observed(p) ==
    IF inv[p].disconnectedAt = -1 THEN inv[p].written
    ELSE SubSeq(inv[p].written, 1, inv[p].disconnectedAt)

\* a millisecond passes on the store's clock
Tick ==
    /\ now < MaxClock
    /\ now' = now + 1
    /\ UNCHANGED <<documents, sessions, messages, nextId, remoteDocs, remoteLog, inv, last, prev>>

-----------------------------------------------------------------------------
(* The simulated remote chat streams *)

EventHel == <<DataPrefix, "{", ContentHel, "}", LF, LF>>

EventLo == <<DataPrefix, "{", ContentLo, "}", LF, LF>>

EventIdsAB == <<DataPrefix, "{", IdsAB, "}", LF, LF>>

\* two events in one chunk, the first with both members
EventLoIdsCDone ==
    <<DataPrefix, "{", ContentLo, ",", IdsC, "}", LF, LF, DataPrefix, "{", OtherField, "}", LF, LF>>

EventEmpty == <<DataPrefix, "{", ContentEmpty, ",", IdsEmpty, "}", LF, LF>>

\* a data line cut in two by the transport
HalfHelA == <<DataPrefix, "{", ContentHel>>

HalfHelB == <<"}", LF, LF>>

\* a line that is no JSON
Malformed == <<DataPrefix, "{", "not json", LF, LF>>

\* a line that is no JSON and no UTF-8 text: a lead byte with no continuation
MalformedBytes == <<DataPrefix, "{", "0xC3", LF, LF>>

\* an SSE comment line holding one two-byte character, cut inside it
CommentA == <<": ", "0xC3">>

CommentB == <<"0xA9", LF>>

StreamPool ==
    {EventHel, EventLo, EventIdsAB, EventLoIdsCDone, EventEmpty,
     HalfHelA, HalfHelB, Malformed, MalformedBytes, CommentA, CommentB}

\* the text of the request each invocation serves: one text per request, so
\* that the messages of two requests can be told apart
MessageOf(p) == IF p = "p1" THEN "hi" ELSE "yo"

-----------------------------------------------------------------------------
(* The document directory's records of what a handler did *)

NoResult ==
    [status |-> NULL, summary |-> NULL, classification |-> NULL, error_message |-> NULL]

NoOp ==
    [op |-> "none", userId |-> NULL, documentId |-> NULL, error |-> NoError,
     result |-> NoResult, wrote |-> FALSE, calls |-> <<>>]

\* a row of Document as the store returns it
Row(userId, logosId, status, summary, classification, errorMessage) ==
    [user_id |-> userId, filename |-> "f.pdf", content_type |-> "application/pdf",
     logos_id |-> logosId, status |-> status, summary |-> summary,
     classification |-> classification, error_message |-> errorMessage]

\* the rows a document can be found in after upload and status refreshes
Rows ==
    {Row(u, l, st, IF st = COMPLETED THEN "s1" ELSE NULL,
         IF st = COMPLETED THEN "c1" ELSE NULL,
         IF st = "FAILED" THEN "e1" ELSE NULL) :
        u \in Users, l \in {NULL, "L1"}, st \in DocumentStatus}

NoDocuments == [d \in {} |-> NULL]

-----------------------------------------------------------------------------
(* The chat proxy serving one request, over one stored document *)

InitChat ==
    /\ documents \in {[d \in {"d1"} |-> r] : r \in Rows}
    /\ sessions = {}
    /\ messages = {}
    /\ nextId = 1
    /\ now = 0
    /\ remoteDocs = NoDocuments
    /\ remoteLog = <<>>
    /\ inv = [p \in Procs |-> Idle]
    /\ last = NoOp
    /\ prev = NoOp

\* the steps of the invocation p, for requests by the given users on the
\* given documents, remote streams made of the given chunks and breaking
\* with the given errors
Step(p, users, docs, pool, errors) ==
    \/ \E u \in users, d \in docs : Chat(p, u, d, MessageOf(p))
    \/ Validate(p)
    \/ FindSession(p)
    \/ CreateSession(p)
    \/ CreateMessage(p)
    \/ HistoryValidate(p)
    \/ HistoryRead(p)
    \/ OpenStream(p)
    \/ OpenRejected(p)
    \/ OpenUnreachable(p)
    \/ \E c \in pool : StreamChunk(p, c)
    \/ StreamEnd(p)
    \/ \E err \in errors : StreamFail(p, err)

NextChat == Step("p1", Users, DocIds, StreamPool, StreamErrors)

SpecChat == InitChat /\ [][NextChat]_vars

-----------------------------------------------------------------------------
(* The chat proxy serving one request whose caller may disconnect, and     *)
(* two concurrent requests on the same document                            *)

SmallPool == {EventHel, EventIdsAB}

InitReady ==
    /\ documents = [d \in {"d1"} |-> Row("u1", "L1", COMPLETED, "s1", "c1", NULL)]
    /\ sessions = {}
    /\ messages = {}
    /\ nextId = 1
    /\ now = 0
    /\ remoteDocs = NoDocuments
    /\ remoteLog = <<>>
    /\ inv = [p \in Procs |-> Idle]
    /\ last = NoOp
    /\ prev = NoOp

NextCancel ==
    \/ Step("p1", {"u1"}, {"d1"}, SmallPool, StreamErrors)
    \/ Disconnect("p1")

SpecCancel == InitReady /\ [][NextCancel]_vars

NextRace ==
    \/ \E p \in Procs : Step(p, {"u1"}, {"d1"}, {EventHel}, {Aborted})
    \/ Tick

SpecRace == InitReady /\ [][NextRace]_vars

-----------------------------------------------------------------------------
(* The chat proxy serving one request to its end: the event loop runs every *)
(* continuation that is ready, and the remote stream closes or fails after  *)
(* finitely many chunks                                                     *)

NextLive == Step("p1", Users, DocIds, SmallPool, StreamErrors)

SpecLive == InitChat /\ [][NextLive]_vars /\ WF_vars(NextLive)

-----------------------------------------------------------------------------
(* The Logos client and the simulated Logos service *)

\* the status strings of the Logos service
RemoteStatus == {"pending", "processing", "completed", "failed"}

\* String.toUpperCase on a status string
toUpperCase(st) ==
    CASE st = "pending" -> "PENDING"
      [] st = "processing" -> "PROCESSING"
      [] st = "completed" -> "COMPLETED"
      [] st = "failed" -> "FAILED"
      [] OTHER -> st

\* what a call of the Logos service may come to: an answer, an error status
\* with a detail, an error status without one, or no response at all
Outcomes == {"ok", "detail", "status", "down"}

\* LogosService.handleError: the HttpException thrown for a failed call
handleError(outcome, message) ==
    IF outcome = "detail" THEN [kind |-> "HttpException", message |-> "Logos detail", status |-> 404]
    ELSE IF outcome = "status" THEN [kind |-> "HttpException", message |-> message, status |-> 503]
    ELSE [kind |-> "HttpException", message |-> message, status |-> 500]

\* LogosService.getDocumentStatus: the response body with its status in
\* upper case
getDocumentStatus(logosId) ==
    [status |-> toUpperCase(remoteDocs[logosId].status),
     summary |-> remoteDocs[logosId].summary,
     classification |-> remoteDocs[logosId].classification,
     error_message |-> remoteDocs[logosId].error_message]

\* the Logos service works on a document: pending, processing, then
\* completed with a summary and a classification, or failed with a message
RemoteProgress(l) ==
    /\ l \in DOMAIN remoteDocs
    /\ \/ /\ remoteDocs[l].status = "pending"
          /\ remoteDocs' = [remoteDocs EXCEPT ![l].status = "processing"]
       \/ /\ remoteDocs[l].status = "processing"
          /\ remoteDocs' = [remoteDocs EXCEPT ![l] =
                [status |-> "completed", summary |-> "s1", classification |-> "c1",
                 error_message |-> NULL]]
       \/ /\ remoteDocs[l].status = "processing"
          /\ remoteDocs' = [remoteDocs EXCEPT ![l] =
                [status |-> "failed", summary |-> NULL, classification |-> NULL,
                 error_message |-> "e1"]]
    /\ last' = NoOp
    /\ prev' = NoOp
    /\ UNCHANGED <<documents, sessions, messages, nextId, now, remoteLog, inv>>

\* the Logos service rewrites the summary of a completed document
RemoteRevise(l) ==
    /\ l \in DOMAIN remoteDocs
    /\ remoteDocs[l].status = "completed"
    /\ remoteDocs[l].summary = "s1"
    /\ remoteDocs' = [remoteDocs EXCEPT ![l].summary = "s2"]
    /\ last' = NoOp
    /\ prev' = NoOp
    /\ UNCHANGED <<documents, sessions, messages, nextId, now, remoteLog, inv>>

-----------------------------------------------------------------------------
(* The document directory: DocumentsService *)

\* findOne without the ownership check
findOne_NoOwnerCheck(userId, documentId) ==
    IF documentId \notin DOMAIN documents THEN NotFoundException
    ELSE NoError

\* DocumentsService.findOne: the exception it throws, or NoError
findOne(userId, documentId) ==
    IF documentId \notin DOMAIN documents THEN NotFoundException
    ELSE IF documents[documentId].user_id # userId THEN ForbiddenException
    ELSE NoError

\* the fields getStatus returns, of a row or of a Logos response
StatusOf(r) ==
    [status |-> r.status, summary |-> r.summary, classification |-> r.classification,
     error_message |-> r.error_message]

\* the handler op is over: what it did becomes last, and last becomes prev
Done(op, userId, documentId, error, result, wrote, calls) ==
    /\ last' = [op |-> op, userId |-> userId, documentId |-> documentId, error |-> error,
                result |-> result, wrote |-> wrote, calls |-> calls]
    /\ prev' = last

\* uploadDocument with the local row created before the Logos call is known
\* to have succeeded
UploadDocument_CreatesFirst(userId, outcome, logosId) ==
    /\ DOMAIN documents # DocIds
    /\ logosId \in (LogosIds \ DOMAIN remoteDocs) \cup {NULL}
    /\ LET id == CHOOSE d \in DocIds : d \notin DOMAIN documents
       IN IF outcome # "ok"
          THEN /\ Done("upload", userId, NULL,
                       handleError(outcome, "Failed to upload document to Logos"),
                       NoResult, FALSE, <<[op |-> "upload", logos_id |-> NULL]>>)
               /\ documents' = [d \in DOMAIN documents \cup {id} |->
                                  IF d = id
                                  THEN Row(userId, NULL, PENDING, NULL, NULL, NULL)
                                  ELSE documents[d]]
               /\ UNCHANGED remoteDocs
          ELSE /\ remoteDocs' =
                    IF logosId = NULL THEN remoteDocs
                    ELSE [l \in DOMAIN remoteDocs \cup {logosId} |->
                            IF l = logosId
                            THEN [status |-> "pending", summary |-> NULL,
                                  classification |-> NULL, error_message |-> NULL]
                            ELSE remoteDocs[l]]
               /\ documents' = [d \in DOMAIN documents \cup {id} |->
                                  IF d = id
                                  THEN Row(userId, logosId, PENDING, NULL, NULL, NULL)
                                  ELSE documents[d]]
               /\ Done("upload", userId, id, NoError, NoResult, TRUE,
                       <<[op |-> "upload", logos_id |-> logosId]>>)
    /\ UNCHANGED <<sessions, messages, nextId, now, remoteLog, inv>>

\* DocumentsService.uploadDocument: the upload to Logos, which answers with
\* the id of a new remote document (or with none), then the local row
UploadDocument(userId, outcome, logosId) ==
    /\ DOMAIN documents # DocIds
    /\ logosId \in (LogosIds \ DOMAIN remoteDocs) \cup {NULL}
    /\ IF outcome # "ok"
       THEN /\ Done("upload", userId, NULL,
                    handleError(outcome, "Failed to upload document to Logos"),
                    NoResult, FALSE, <<[op |-> "upload", logos_id |-> NULL]>>)
            /\ UNCHANGED <<documents, remoteDocs>>
       ELSE LET id == CHOOSE d \in DocIds : d \notin DOMAIN documents
            IN /\ remoteDocs' =
                    IF logosId = NULL THEN remoteDocs
                    ELSE [l \in DOMAIN remoteDocs \cup {logosId} |->
                            IF l = logosId
                            THEN [status |-> "pending", summary |-> NULL,
                                  classification |-> NULL, error_message |-> NULL]
                            ELSE remoteDocs[l]]
               /\ documents' = [d \in DOMAIN documents \cup {id} |->
                                  IF d = id
                                  THEN Row(userId, logosId, PENDING, NULL, NULL, NULL)
                                  ELSE documents[d]]
               /\ Done("upload", userId, id, NoError, NoResult, TRUE,
                       <<[op |-> "upload", logos_id |-> logosId]>>)
    /\ UNCHANGED <<sessions, messages, nextId, now, remoteLog, inv>>

\* DocumentsService.uploadDocument when prisma.document.create rejects after
\* the upload to Logos has succeeded (Document_user_id_fkey: the row of the
\* user is gone): the rejection leaves the method, there is no catch and
\* no call that takes the remote document back
UploadDocumentRejected(userId, logosId) ==
    /\ DOMAIN documents # DocIds
    /\ logosId \in LogosIds \ DOMAIN remoteDocs
    /\ remoteDocs' = [l \in DOMAIN remoteDocs \cup {logosId} |->
                         IF l = logosId
                         THEN [status |-> "pending", summary |-> NULL,
                               classification |-> NULL, error_message |-> NULL]
                         ELSE remoteDocs[l]]
    /\ Done("upload", userId, NULL, ForeignKeyViolation, NoResult, FALSE,
            <<[op |-> "upload", logos_id |-> logosId]>>)
    /\ UNCHANGED <<documents, sessions, messages, nextId, now, remoteLog, inv>>

\* getStatus that writes the row whether or not the status has changed
GetStatus_AlwaysWrites(userId, documentId, outcome) ==
    LET err == findOne(userId, documentId)
    IN /\ IF err # NoError
          THEN /\ Done("getStatus", userId, documentId, err, NoResult, FALSE, <<>>)
               /\ UNCHANGED documents
          ELSE IF documents[documentId].logos_id = NULL
          THEN /\ Done("getStatus", userId, documentId, NoError,
                       StatusOf(documents[documentId]), FALSE, <<>>)
               /\ UNCHANGED documents
          ELSE LET logosId == documents[documentId].logos_id
                   calls == <<[op |-> "status", logos_id |-> logosId]>>
               IN IF outcome # "ok" \/ logosId \notin DOMAIN remoteDocs
                  THEN /\ Done("getStatus", userId, documentId,
                               handleError(IF outcome = "ok" THEN "detail" ELSE outcome,
                                           "Failed to get document status from Logos"),
                               NoResult, FALSE, calls)
                       /\ UNCHANGED documents
                  ELSE LET logosStatus == getDocumentStatus(logosId)
                       IN IF TRUE
                          THEN /\ documents' = [documents EXCEPT ![documentId] =
                                    [@ EXCEPT !.status = logosStatus.status,
                                              !.summary = logosStatus.summary,
                                              !.classification = logosStatus.classification,
                                              !.error_message = logosStatus.error_message]]
                               /\ Done("getStatus", userId, documentId, NoError,
                                       logosStatus, TRUE, calls)
                          ELSE /\ UNCHANGED documents
                               /\ Done("getStatus", userId, documentId, NoError,
                                       logosStatus, FALSE, calls)
       /\ UNCHANGED <<sessions, messages, nextId, now, remoteDocs, remoteLog, inv>>

\* getStatus without the early return for a row with no Logos reference
GetStatus_AlwaysAsks(userId, documentId, outcome) ==
    LET err == findOne(userId, documentId)
    IN /\ IF err # NoError
          THEN /\ Done("getStatus", userId, documentId, err, NoResult, FALSE, <<>>)
               /\ UNCHANGED documents
          ELSE IF FALSE
          THEN /\ Done("getStatus", userId, documentId, NoError,
                       StatusOf(documents[documentId]), FALSE, <<>>)
               /\ UNCHANGED documents
          ELSE LET logosId == documents[documentId].logos_id
                   calls == <<[op |-> "status", logos_id |-> logosId]>>
               IN IF outcome # "ok" \/ logosId \notin DOMAIN remoteDocs
                  THEN /\ Done("getStatus", userId, documentId,
                               handleError(IF outcome = "ok" THEN "detail" ELSE outcome,
                                           "Failed to get document status from Logos"),
                               NoResult, FALSE, calls)
                       /\ UNCHANGED documents
                  ELSE LET logosStatus == getDocumentStatus(logosId)
                       IN IF logosStatus.status # documents[documentId].status
                          THEN /\ documents' = [documents EXCEPT ![documentId] =
                                    [@ EXCEPT !.status = logosStatus.status,
                                              !.summary = logosStatus.summary,
                                              !.classification = logosStatus.classification,
                                              !.error_message = logosStatus.error_message]]
                               /\ Done("getStatus", userId, documentId, NoError,
                                       logosStatus, TRUE, calls)
                          ELSE /\ UNCHANGED documents
                               /\ Done("getStatus", userId, documentId, NoError,
                                       logosStatus, FALSE, calls)
       /\ UNCHANGED <<sessions, messages, nextId, now, remoteDocs, remoteLog, inv>>

\* getStatus that never writes the row
GetStatus_NeverWrites(userId, documentId, outcome) ==
    LET err == findOne(userId, documentId)
    IN /\ IF err # NoError
          THEN /\ Done("getStatus", userId, documentId, err, NoResult, FALSE, <<>>)
               /\ UNCHANGED documents
          ELSE IF documents[documentId].logos_id = NULL
          THEN /\ Done("getStatus", userId, documentId, NoError,
                       StatusOf(documents[documentId]), FALSE, <<>>)
               /\ UNCHANGED documents
          ELSE LET logosId == documents[documentId].logos_id
                   calls == <<[op |-> "status", logos_id |-> logosId]>>
               IN IF outcome # "ok" \/ logosId \notin DOMAIN remoteDocs
                  THEN /\ Done("getStatus", userId, documentId,
                               handleError(IF outcome = "ok" THEN "detail" ELSE outcome,
                                           "Failed to get document status from Logos"),
                               NoResult, FALSE, calls)
                       /\ UNCHANGED documents
                  ELSE LET logosStatus == getDocumentStatus(logosId)
                       IN IF FALSE
                          THEN /\ documents' = [documents EXCEPT ![documentId] =
                                    [@ EXCEPT !.status = logosStatus.status,
                                              !.summary = logosStatus.summary,
                                              !.classification = logosStatus.classification,
                                              !.error_message = logosStatus.error_message]]
                               /\ Done("getStatus", userId, documentId, NoError,
                                       logosStatus, TRUE, calls)
                          ELSE /\ UNCHANGED documents
                               /\ Done("getStatus", userId, documentId, NoError,
                                       logosStatus, FALSE, calls)
       /\ UNCHANGED <<sessions, messages, nextId, now, remoteDocs, remoteLog, inv>>

\* DocumentsService.getStatus
GetStatus(userId, documentId, outcome) ==
    LET err == findOne(userId, documentId)
    IN /\ IF err # NoError
          THEN /\ Done("getStatus", userId, documentId, err, NoResult, FALSE, <<>>)
               /\ UNCHANGED documents
          ELSE IF documents[documentId].logos_id = NULL
          THEN /\ Done("getStatus", userId, documentId, NoError,
                       StatusOf(documents[documentId]), FALSE, <<>>)
               /\ UNCHANGED documents
          ELSE LET logosId == documents[documentId].logos_id
                   calls == <<[op |-> "status", logos_id |-> logosId]>>
               IN IF outcome # "ok" \/ logosId \notin DOMAIN remoteDocs
                  THEN /\ Done("getStatus", userId, documentId,
                               handleError(IF outcome = "ok" THEN "detail" ELSE outcome,
                                           "Failed to get document status from Logos"),
                               NoResult, FALSE, calls)
                       /\ UNCHANGED documents
                  ELSE LET logosStatus == getDocumentStatus(logosId)
                       IN IF logosStatus.status # documents[documentId].status
                          THEN /\ documents' = [documents EXCEPT ![documentId] =
                                    [@ EXCEPT !.status = logosStatus.status,
                                              !.summary = logosStatus.summary,
                                              !.classification = logosStatus.classification,
                                              !.error_message = logosStatus.error_message]]
                               /\ Done("getStatus", userId, documentId, NoError,
                                       logosStatus, TRUE, calls)
                          ELSE /\ UNCHANGED documents
                               /\ Done("getStatus", userId, documentId, NoError,
                                       logosStatus, FALSE, calls)
       /\ UNCHANGED <<sessions, messages, nextId, now, remoteDocs, remoteLog, inv>>

InitDocs ==
    /\ documents = NoDocuments
    /\ sessions = {}
    /\ messages = {}
    /\ nextId = 1
    /\ now = 0
    /\ remoteDocs = NoDocuments
    /\ remoteLog = <<>>
    /\ inv = [p \in Procs |-> Idle]
    /\ last = NoOp
    /\ prev = NoOp

NextDocs ==
    \/ \E u \in Users, o \in Outcomes, l \in LogosIds \cup {NULL} : UploadDocument(u, o, l)
    \/ \E l \in LogosIds : RemoteProgress(l)
    \/ \E l \in LogosIds : RemoteRevise(l)
    \/ \E u \in Users, d \in DocIds, o \in Outcomes : GetStatus(u, d, o)

SpecDocs == InitDocs /\ [][NextDocs]_vars

\* uploads alone, the rejection of the local insert included
NextUpload ==
    \/ \E u \in Users, o \in Outcomes, l \in LogosIds \cup {NULL} : UploadDocument(u, o, l)
    \/ \E u \in Users, l \in LogosIds : UploadDocumentRejected(u, l)

SpecUpload == InitDocs /\ [][NextUpload]_vars

-----------------------------------------------------------------------------
(* The document directory over stored documents that have chat sessions:   *)
(* get, list, sync and delete                                              *)

\* LogosService.getDocument: the response body with its status in upper case
getDocument(logosId) ==
    [status |-> toUpperCase(remoteDocs[logosId].status),
     summary |-> remoteDocs[logosId].summary,
     classification |-> remoteDocs[logosId].classification,
     error_message |-> remoteDocs[logosId].error_message]

\* prisma.document.delete with the cascades of ChatSession_document_id_fkey
\* and ChatMessage_session_id_fkey
deleteCascade(documentId) ==
    /\ documents' = [d \in DOMAIN documents \ {documentId} |-> documents[d]]
    /\ sessions' = sessions \ SessionsOf(documentId)
    /\ messages' = {m \in messages : \A s \in SessionsOf(documentId) : m.session_id # s.id}

\* delete without the try/catch around the Logos call: a failure of the
\* remote delete leaves the handler before the local delete
Delete_Propagates(userId, documentId, outcome) ==
    LET err == findOne(userId, documentId)
    IN /\ IF err # NoError
          THEN /\ Done("delete", userId, documentId, err, NoResult, FALSE, <<>>)
               /\ UNCHANGED <<documents, sessions, messages, remoteDocs>>
          ELSE IF documents[documentId].logos_id = NULL
          THEN /\ deleteCascade(documentId)
               /\ Done("delete", userId, documentId, NoError, NoResult, TRUE, <<>>)
               /\ UNCHANGED remoteDocs
          ELSE LET logosId == documents[documentId].logos_id
                   calls == <<[op |-> "delete", logos_id |-> logosId]>>
               IN IF outcome = "ok" /\ logosId \in DOMAIN remoteDocs
                  THEN /\ remoteDocs' = [l \in DOMAIN remoteDocs \ {logosId} |-> remoteDocs[l]]
                       /\ deleteCascade(documentId)
                       /\ Done("delete", userId, documentId, NoError, NoResult, TRUE, calls)
                  ELSE /\ UNCHANGED <<documents, sessions, messages, remoteDocs>>
                       /\ Done("delete", userId, documentId,
                               handleError(IF outcome = "ok" THEN "detail" ELSE outcome,
                                           "Failed to delete document from Logos"),
                               NoResult, FALSE, calls)
       /\ UNCHANGED <<nextId, now, remoteLog, inv>>

\* DocumentsService.delete: the Logos delete, whose failure is logged and
\* dropped, then the local delete
Delete(userId, documentId, outcome) ==
    LET err == findOne(userId, documentId)
    IN /\ IF err # NoError
          THEN /\ Done("delete", userId, documentId, err, NoResult, FALSE, <<>>)
               /\ UNCHANGED <<documents, sessions, messages, remoteDocs>>
          ELSE IF documents[documentId].logos_id = NULL
          THEN /\ deleteCascade(documentId)
               /\ Done("delete", userId, documentId, NoError, NoResult, TRUE, <<>>)
               /\ UNCHANGED remoteDocs
          ELSE LET logosId == documents[documentId].logos_id
                   calls == <<[op |-> "delete", logos_id |-> logosId]>>
               IN IF outcome = "ok" /\ logosId \in DOMAIN remoteDocs
                  THEN /\ remoteDocs' = [l \in DOMAIN remoteDocs \ {logosId} |-> remoteDocs[l]]
                       /\ deleteCascade(documentId)
                       /\ Done("delete", userId, documentId, NoError, NoResult, TRUE, calls)
                  ELSE /\ UNCHANGED remoteDocs
                       /\ deleteCascade(documentId)
                       /\ Done("delete", userId, documentId, NoError, NoResult, TRUE, calls)
       /\ UNCHANGED <<nextId, now, remoteLog, inv>>

\* DocumentsService.syncDocument
SyncDocument(userId, documentId, outcome) ==
    LET err == findOne(userId, documentId)
    IN /\ IF err # NoError
          THEN /\ Done("sync", userId, documentId, err, NoResult, FALSE, <<>>)
               /\ UNCHANGED documents
          ELSE IF documents[documentId].logos_id = NULL
          THEN /\ Done("sync", userId, documentId,
                       [kind |-> "NotFoundException",
                        message |-> "Document has no Logos reference"],
                       NoResult, FALSE, <<>>)
               /\ UNCHANGED documents
          ELSE LET logosId == documents[documentId].logos_id
                   calls == <<[op |-> "get", logos_id |-> logosId]>>
               IN IF outcome # "ok" \/ logosId \notin DOMAIN remoteDocs
                  THEN /\ Done("sync", userId, documentId,
                               handleError(IF outcome = "ok" THEN "detail" ELSE outcome,
                                           "Failed to get document from Logos"),
                               NoResult, FALSE, calls)
                       /\ UNCHANGED documents
                  ELSE LET logosDoc == getDocument(logosId)
                       IN /\ documents' = [documents EXCEPT ![documentId] =
                                [@ EXCEPT !.status = logosDoc.status,
                                          !.summary = logosDoc.summary,
                                          !.classification = logosDoc.classification,
                                          !.error_message = logosDoc.error_message]]
                          /\ Done("sync", userId, documentId, NoError, logosDoc, TRUE, calls)
       /\ UNCHANGED <<sessions, messages, nextId, now, remoteDocs, remoteLog, inv>>

\* GET /documents/:id: DocumentsService.findOne as a handler
FindOne(userId, documentId) ==
    /\ LET err == findOne(userId, documentId)
       IN Done("get", userId, documentId, err,
               IF err = NoError THEN StatusOf(documents[documentId]) ELSE NoResult,
               FALSE, <<>>)
    /\ UNCHANGED <<documents, sessions, messages, nextId, now, remoteDocs, remoteLog, inv>>

\* DocumentsService.findAllForUser: the ids of the rows where user_id = userId
FindAllForUser(userId) ==
    /\ Done("list", userId, NULL, NoError,
            [ids |-> {d \in DOMAIN documents : documents[d].user_id = userId}],
            FALSE, <<>>)
    /\ UNCHANGED <<documents, sessions, messages, nextId, now, remoteDocs, remoteLog, inv>>

\* a record of the Logos service for a document in the given state
RemoteDoc(st) ==
    [status |-> st,
     summary |-> IF st = "completed" THEN "s1" ELSE NULL,
     classification |-> IF st = "completed" THEN "c1" ELSE NULL,
     error_message |-> IF st = "failed" THEN "e1" ELSE NULL]

\* the session of document d1 and the two messages of one finished chat,
\* created two and one millisecond before the clock's origin
ChattedSession == {[id |-> 1, document_id |-> "d1"]}

ChattedMessages ==
    {[id |-> 2, session_id |-> 1, role |-> "user", content |-> "hi",
      chunk_ids |-> <<>>, created_at |-> -2],
     [id |-> 3, session_id |-> 1, role |-> "assistant", content |-> "Hel",
      chunk_ids |-> <<>>, created_at |-> -1]}

\* two stored documents: d1 of user u1 in any state, with the session of a
\* finished chat when it is one a chat can run on, and d2 of user u2
\* uploaded with no Logos id; the Logos service holds d1's document in any
\* state
InitDir ==
    /\ \E r \in {x \in Rows : x.user_id = "u1"} :
          /\ documents = [d \in DocIds |->
                            IF d = "d1" THEN r ELSE Row("u2", NULL, PENDING, NULL, NULL, NULL)]
          /\ \/ sessions = {} /\ messages = {} /\ nextId = 1
             \/ /\ r.status = COMPLETED /\ r.logos_id # NULL
                /\ sessions = ChattedSession
                /\ messages = ChattedMessages
                /\ nextId = 4
          /\ IF r.logos_id = NULL THEN remoteDocs = NoDocuments
             ELSE remoteDocs \in {[l \in {r.logos_id} |-> RemoteDoc(st)] : st \in RemoteStatus}
    /\ now = 0
    /\ remoteLog = <<>>
    /\ inv = [p \in Procs |-> Idle]
    /\ last = NoOp
    /\ prev = NoOp

NextDir ==
    \/ \E u \in Users, d \in DocIds : FindOne(u, d)
    \/ \E u \in Users : FindAllForUser(u)
    \/ \E u \in Users, d \in DocIds, o \in Outcomes : GetStatus(u, d, o)
    \/ \E u \in Users, d \in DocIds, o \in Outcomes : SyncDocument(u, d, o)
    \/ \E u \in Users, d \in DocIds, o \in Outcomes : Delete(u, d, o)

SpecDir == InitDir /\ [][NextDir]_vars

-----------------------------------------------------------------------------
(* The chat history endpoints, each taken whole, next to running chats *)

\* a row of ChatMessage as getChatHistory returns it
historyItem(m) ==
    [id |-> m.id, role |-> m.role, content |-> m.content, chunk_ids |-> m.chunk_ids,
     created_at |-> m.created_at]

\* ChatService.getChatHistory
GetChatHistory(userId, documentId) ==
    /\ LET err == validateDocumentAccess(userId, documentId)
           found == SessionsOf(documentId)
       IN IF err # NoError
          THEN Done("getChatHistory", userId, documentId, err, NoResult, FALSE, <<>>)
          ELSE IF found = {}
          THEN Done("getChatHistory", userId, documentId, NoError,
                    [session_id |-> "", messages |-> <<>>], FALSE, <<>>)
          ELSE \E rows \in OrderedBy(MessagesOf((CHOOSE s \in found : TRUE).id)) :
                  Done("getChatHistory", userId, documentId, NoError,
                       [session_id |-> (CHOOSE s \in found : TRUE).id,
                        messages |-> [i \in 1..Len(rows) |-> historyItem(rows[i])]],
                       FALSE, <<>>)
    /\ UNCHANGED <<documents, sessions, messages, nextId, now, remoteDocs, remoteLog, inv>>

\* ChatService.clearChatHistory: deleteMany on ChatSession, the messages go
\* by the cascade of ChatMessage_session_id_fkey
ClearChatHistory(userId, documentId) ==
    /\ LET err == validateDocumentAccess(userId, documentId)
       IN IF err # NoError
          THEN /\ Done("clearChatHistory", userId, documentId, err, NoResult, FALSE, <<>>)
               /\ UNCHANGED <<sessions, messages>>
          ELSE /\ sessions' = sessions \ SessionsOf(documentId)
               /\ messages' = {m \in messages :
                                  \A s \in SessionsOf(documentId) : m.session_id # s.id}
               /\ Done("clearChatHistory", userId, documentId, NoError, NoResult, TRUE, <<>>)
    /\ UNCHANGED <<documents, nextId, now, remoteDocs, remoteLog, inv>>

\* one stored document in any state, with the session and the messages of
\* an earlier, finished chat when it is one a chat can run on
InitHistory ==
    /\ \E r \in Rows :
          /\ documents = [d \in {"d1"} |-> r]
          /\ \/ sessions = {} /\ messages = {} /\ nextId = 1
             \/ /\ r.status = COMPLETED /\ r.logos_id # NULL
                /\ sessions = ChattedSession
                /\ messages = ChattedMessages
                /\ nextId = 4
    /\ now = 0
    /\ remoteDocs = NoDocuments
    /\ remoteLog = <<>>
    /\ inv = [p \in Procs |-> Idle]
    /\ last = NoOp
    /\ prev = NoOp

NextHistory ==
    \/ Step("p1", {"u1"}, {"d1"}, {EventHel}, {Aborted})
    \/ Tick
    \/ GetChatHistory("u1", "d1")
    \/ ClearChatHistory("u1", "d1")

SpecHistory == InitHistory /\ [][NextHistory]_vars

-----------------------------------------------------------------------------
(* One chat request run to its end while the owner deletes the document *)

NextDelete ==
    \/ Step("p1", {"u1"}, {"d1"}, {EventHel}, {Aborted})
    \/ \E o \in Outcomes : Delete("u1", "d1", o)

SpecDelete ==
    InitHistory /\ [][NextDelete]_vars
                /\ WF_vars(Step("p1", {"u1"}, {"d1"}, {EventHel}, {Aborted}))

-----------------------------------------------------------------------------
(* Properties of the chat proxy *)

\* the writes that forward the chunks the remote has emitted
Forwarded(p) == [i \in 1..Len(inv[p].emitted) |-> write(toString(inv[p].emitted[i]))]

\* the rows of ChatMessage the invocation p has created
UserSaved(p) == {m \in messages : m.id \in inv[p].saved /\ m.role = "user"}

AssistantSaved(p) == {m \in messages : m.id \in inv[p].saved /\ m.role = "assistant"}

\* the requests the remote has received from the invocation p
RequestsBy(p) == {i \in 1..Len(remoteLog) : remoteLog[i].by = p}

RECURSIVE Concat(_)
Concat(chunks) == IF chunks = <<>> THEN <<>> ELSE Head(chunks) \o Concat(Tail(chunks))

\* the lines of the remote stream as a whole
StreamLines(p) == split(toString(Concat(inv[p].emitted)))

\* the remote stream as a whole is UTF-8 text, and every data line of it
\* carries a JSON payload
CarriesJSON(p) ==
    /\ write(toString(Concat(inv[p].emitted))) = Concat(inv[p].emitted)
    /\ \A i \in 1..Len(StreamLines(p)) :
        startsWith(StreamLines(p)[i]) => IsObject(Tail(StreamLines(p)[i]))

\* the content fragments of the stream's lines concatenated in arrival
\* order, and the last chunk_ids list among them
Accumulated(p) == parseLines([fullResponse |-> "", chunkIds |-> <<>>], StreamLines(p))

\* C1: when the remote stream [c1, ..., cn] closes normally, the caller has
\* observed exactly [c1, ..., cn], each chunk unaltered, in order
C1_ByteTransparency ==
    \A p \in Procs :
        (inv[p].pc = "done" /\ inv[p].remote = "closed" /\ inv[p].disconnectedAt = -1)
            => Observed(p) = inv[p].emitted

\* C2: the assistant message persisted for a stream whose data lines carry
\* JSON payloads holds the concatenation of all content fragments and the
\* last chunk_ids list seen
C2_Accumulation ==
    \A p \in Procs : \A m \in AssistantSaved(p) :
        CarriesJSON(p) =>
            /\ m.content = Accumulated(p).fullResponse
            /\ m.chunk_ids = Accumulated(p).chunkIds

\* C3: once the remote stream has raised mid-flight, the response holds the
\* chunks forwarded so far followed by exactly one error event carrying the
\* failure's message, it is ended, and no assistant message is persisted
C3_ErrorTerminates ==
    \A p \in Procs :
        inv[p].remote = "failed" =>
            /\ inv[p].written = Forwarded(p) \o <<ErrorEvent(inv[p].raised.message)>>
            /\ inv[p].ended
            /\ inv[p].pc = "done"
            /\ AssistantSaved(p) = {}

\* C3 happens: a stream has raised after a chunk was forwarded
C3_Witness ==
    \E p \in Procs : inv[p].remote = "failed" /\ Len(inv[p].emitted) >= 1

\* C4: a chat request on a document of another user ends with Forbidden,
\* the remote has received no request and no session or message is stored
C4_ForbiddenBeforeEffects ==
    \A p \in Procs :
        (/\ inv[p].pc # "idle"
         /\ inv[p].document_id \in DOMAIN documents
         /\ documents[inv[p].document_id].user_id # inv[p].userId)
            => /\ inv[p].pc \in {"validate", "done"}
               /\ inv[p].pc = "done" => inv[p].error = ForbiddenException
               /\ RequestsBy(p) = {}
               /\ sessions = {} /\ messages = {}

\* C4 happens: a request on another user's document has ended
C4_Witness ==
    \E p \in Procs :
        /\ inv[p].pc = "done"
        /\ inv[p].document_id \in DOMAIN documents
        /\ documents[inv[p].document_id].user_id # inv[p].userId
        /\ documents[inv[p].document_id].status = COMPLETED
        /\ documents[inv[p].document_id].logos_id # NULL

\* C5: a chat request on an owned document that is not COMPLETED, or that
\* has no remote reference, ends with BadRequest (InvalidState) and the
\* remote has received no request
C5_InvalidStateBeforeRemote ==
    \A p \in Procs :
        (/\ inv[p].pc # "idle"
         /\ inv[p].document_id \in DOMAIN documents
         /\ documents[inv[p].document_id].user_id = inv[p].userId
         /\ \/ documents[inv[p].document_id].status # COMPLETED
            \/ documents[inv[p].document_id].logos_id = NULL)
            => /\ inv[p].pc \in {"validate", "done"}
               /\ inv[p].pc = "done" => inv[p].error.kind = "BadRequestException"
               /\ RequestsBy(p) = {}

\* C5 happens: a request by the owner of a PENDING document with a remote
\* reference has ended
C5_Witness ==
    \E p \in Procs :
        /\ inv[p].pc = "done"
        /\ inv[p].document_id \in DOMAIN documents
        /\ documents[inv[p].document_id].user_id = inv[p].userId
        /\ documents[inv[p].document_id].status = PENDING
        /\ documents[inv[p].document_id].logos_id # NULL

\* C6: concurrent getOrCreateSession calls for one document leave one session
\* row, and none of the calls fails on the race
C6_RaceTolerated ==
    /\ \A d \in DocIds : Cardinality(SessionsOf(d)) <= 1
    /\ \A p \in Procs : inv[p].error # UniqueViolation

\* C7: once the caller has disconnected, no further chunk of the remote
\* stream is consumed and no assistant message is persisted
C7_Cancellation ==
    \A p \in Procs :
        inv[p].disconnectedAt # -1 =>
            /\ Len(inv[p].emitted) = inv[p].consumedAtDisconnect
            /\ AssistantSaved(p) = {}

\* C8: the assistant message is persisted only after every remote chunk was
\* forwarded and before the response is ended, so that once the response of
\* a normal completion with content has ended, the history of the document
\* holds the user message and the assistant message of the exchange
C8_PersistBetweenForwardAndEnd ==
    \A p \in Procs :
        /\ (inv[p].role = "assistant" /\ inv[p].pc # "done") =>
                ~inv[p].ended /\ AssistantSaved(p) = {}
        /\ AssistantSaved(p) # {} =>
                inv[p].remote = "closed" /\ inv[p].written = Forwarded(p)
        /\ (inv[p].ended /\ inv[p].error = NoError /\ inv[p].fullResponse # "") =>
                \E s \in SessionsOf(inv[p].document_id) :
                    /\ \E m \in UserSaved(p) : m \in MessagesOf(s.id)
                    /\ \E m \in AssistantSaved(p) :
                            /\ m \in MessagesOf(s.id)
                            /\ m.content = inv[p].fullResponse

\* C8 happens: a response has ended normally after content was accumulated
C8_Witness ==
    \E p \in Procs :
        inv[p].ended /\ inv[p].error = NoError /\ inv[p].fullResponse # ""

\* C16: a call of the Logos service that is answered with an error status
\* or not answered at all fails with the HttpException of handleError,
\* whichever operation made it, the opening of a chat stream included
C16_UniformFailure ==
    /\ \A p \in Procs :
          inv[p].remote \in {"refused", "unreachable"} => inv[p].error.kind = "HttpException"
    /\ (last.calls # <<>> /\ last.error # NoError) => last.error.kind = "HttpException"

\* a data line whose payload JSON.parse rejects
MalformedLine(line) == startsWith(line) /\ ~IsObject(Tail(line))

NotMalformed(line) == ~MalformedLine(line)

\* the i-th chunk of the remote stream holds a malformed data line
HoldsMalformed(p, i) ==
    \E k \in 1..Len(split(toString(inv[p].emitted[i]))) :
        MalformedLine(split(toString(inv[p].emitted[i]))[k])

\* the accumulator fed with the first n chunks, their malformed lines left out
RECURSIVE WithoutMalformed(_, _)
WithoutMalformed(p, n) ==
    IF n = 0 THEN [fullResponse |-> "", chunkIds |-> <<>>]
    ELSE parseLines(WithoutMalformed(p, n - 1),
                    SelectSeq(split(toString(inv[p].emitted[n])), NotMalformed))

\* C17: a chunk holding a data line that is no JSON is forwarded unchanged,
\* the stream goes on after it (the invocation fails only when the remote
\* stream does), and the content and chunk ids accumulated are those of the
\* other lines
C17_MalformedTolerated ==
    \A p \in Procs :
        (\E i \in 1..Len(inv[p].emitted) : HoldsMalformed(p, i)) =>
            /\ \A i \in 1..Len(inv[p].emitted) :
                  HoldsMalformed(p, i) => inv[p].written[i] = inv[p].emitted[i]
            /\ inv[p].error # NoError => inv[p].remote = "failed"
            /\ inv[p].fullResponse = WithoutMalformed(p, Len(inv[p].emitted)).fullResponse
            /\ inv[p].chunkIds = WithoutMalformed(p, Len(inv[p].emitted)).chunkIds

\* C18: the user message of an invocation is stored before the invocation
\* reads the history and opens the remote stream, so every request the
\* remote has received came after it; an invocation that failed to store
\* it has sent no request
C18_UserSavedBeforeOpen ==
    \A p \in Procs :
        /\ (inv[p].role = "user" /\ inv[p].pc \in {"historyValidate", "historyRead", "open"})
              => RequestsBy(p) = {}
        /\ (inv[p].pc \in {"historyValidate", "historyRead", "open", "streaming"}
            \/ RequestsBy(p) # {})
              => \E m \in UserSaved(p) :
                    /\ m.content = inv[p].message
                    /\ \E s \in SessionsOf(inv[p].document_id) : m.session_id = s.id
        /\ (inv[p].pc = "done" /\ UserSaved(p) = {}) => RequestsBy(p) = {}

\* C18 happens: of two invocations on one document, one has lost the race
\* for the session and stored nothing, the other has sent its request
C18_Witness ==
    \E p, q \in Procs :
        /\ inv[p].error = UniqueViolation /\ inv[p].role = "user" /\ UserSaved(p) = {}
        /\ RequestsBy(q) # {}

\* the accumulator fed with the first n chunks of the remote stream
RECURSIVE Replay(_, _)
Replay(p, n) ==
    IF n = 0 THEN [fullResponse |-> "", chunkIds |-> <<>>]
    ELSE parseChunk(Replay(p, n - 1), toString(inv[p].emitted[n]))

\* no chunk of the remote stream holds a line with content in it
NoContent(p) ==
    \A i \in 1..Len(inv[p].emitted) :
        parseChunk([fullResponse |-> "", chunkIds |-> <<>>],
                   toString(inv[p].emitted[i])).fullResponse = ""

\* C19: an assistant message is stored only when the remote stream has
\* closed normally; once the invocation is over after a normal close, there
\* is exactly one assistant message of it if content was accumulated, with
\* that content and the chunk ids seen last, and none if no content was
\* accumulated; a stream with no content line leaves none
C19_AssistantIffContent ==
    \A p \in Procs :
        /\ AssistantSaved(p) # {} => inv[p].remote = "closed"
        /\ (inv[p].pc = "done" /\ inv[p].remote = "closed") =>
              /\ Replay(p, Len(inv[p].emitted)).fullResponse # ""
                    => /\ Cardinality(AssistantSaved(p)) = 1
                       /\ \A m \in AssistantSaved(p) :
                            /\ m.content = Replay(p, Len(inv[p].emitted)).fullResponse
                            /\ m.chunk_ids = Replay(p, Len(inv[p].emitted)).chunkIds
              /\ Replay(p, Len(inv[p].emitted)).fullResponse = "" => AssistantSaved(p) = {}
              /\ NoContent(p) => AssistantSaved(p) = {}

\* C19 happens: a stream with chunk ids but no content has closed normally
\* and the invocation is over
C19_Witness ==
    \E p \in Procs :
        /\ inv[p].pc = "done"
        /\ inv[p].remote = "closed"
        /\ inv[p].chunkIds # <<>>
        /\ NoContent(p)

\* C20: the conversation context an invocation takes from the history is
\* the messages of the session without the user message the invocation has
\* just saved, in an order by created_at
C20_ContextWithoutOwn ==
    [][\A p \in Procs :
          (inv[p].pc = "historyRead" /\ inv'[p].pc = "open") =>
              \E rows \in OrderedBy(MessagesOf(inv[p].session_id) \ UserSaved(p)) :
                  inv'[p].history = mapRoleContent(rows)]_vars

\* the state of the invocation's state machine the locals r stand for
Phase(r) ==
    IF r.pc = "idle" THEN "Idle"
    ELSE IF r.pc = "done" THEN (IF r.error = NoError THEN "Completed" ELSE "Failed")
    ELSE IF r.role = "assistant" \/ r.pc = "streaming" THEN "Streaming"
    ELSE IF r.pc \in {"historyValidate", "historyRead", "open"} THEN "Persisted"
    ELSE "Validating"

\* the moves of the state machine; every state before the end can fail
Edges ==
    {<<"Idle", "Validating">>,
     <<"Validating", "Validating">>, <<"Validating", "Persisted">>, <<"Validating", "Failed">>,
     <<"Persisted", "Persisted">>, <<"Persisted", "Streaming">>, <<"Persisted", "Failed">>,
     <<"Streaming", "Streaming">>, <<"Streaming", "Completed">>, <<"Streaming", "Failed">>}

\* an invocation that is over: the response is ended, after the forwarded
\* chunks alone when completed, after them and one error event when failed
Terminal(p) ==
    /\ inv[p].ended
    /\ IF inv[p].error = NoError
       THEN /\ inv[p].remote = "closed"
            /\ inv[p].written = Forwarded(p)
            /\ Cardinality(AssistantSaved(p)) = (IF inv[p].fullResponse # "" THEN 1 ELSE 0)
       ELSE /\ inv[p].written = Forwarded(p) \o <<ErrorEvent(inv[p].error.message)>>
            /\ AssistantSaved(p) = {}

\* C21: an invocation moves along Validating -> Persisted -> Streaming ->
\* Completed | Failed, the user message being stored from Persisted on; it
\* sends the remote at most one request; once over it is in one terminal
\* state with the response ended and does nothing more; and every
\* invocation that has started is over eventually
C21_StateMachine ==
    /\ [](\A p \in Procs :
            /\ Cardinality(RequestsBy(p)) <= 1
            /\ Phase(inv[p]) \in {"Persisted", "Streaming", "Completed"} => UserSaved(p) # {}
            /\ inv[p].pc # "done" => ~inv[p].ended
            /\ inv[p].pc = "done" => Terminal(p))
    /\ [][\A p \in Procs :
            inv'[p] # inv[p] => <<Phase(inv[p]), Phase(inv'[p])>> \in Edges]_vars
    /\ \A p \in {"p1"} : (inv[p].pc # "idle") ~> (inv[p].pc = "done")

\* C21 happens: an invocation is over in each of its three terminal states:
\* here the one that stored an assistant message after one request
C21_Witness ==
    \E p \in Procs :
        /\ Phase(inv[p]) = "Completed"
        /\ AssistantSaved(p) # {}
        /\ Cardinality(RequestsBy(p)) = 1
        /\ Len(inv[p].emitted) >= 2

\* C22: when a remote stream of UTF-8 text whose data lines carry JSON
\* payloads has closed, the content and chunk ids the invocation has
\* reconstructed are those of the lines of the concatenated stream, however
\* the stream was cut into chunks
C22_SplitIndependence ==
    \A p \in Procs :
        (inv[p].remote = "closed" /\ CarriesJSON(p)) =>
            /\ inv[p].fullResponse = Accumulated(p).fullResponse
            /\ inv[p].chunkIds = Accumulated(p).chunkIds

-----------------------------------------------------------------------------
(* Properties of the chat history *)

\* C14: getChatHistory returns the messages of the session in the order
\* they were appended (row ids are issued in that order), also when
\* consecutive messages carry equal created_at
C14_HistoryOrder ==
    (last.op = "getChatHistory" /\ last.error = NoError) =>
        \A i, j \in 1..Len(last.result.messages) :
            i < j => last.result.messages[i].id < last.result.messages[j].id

\* C15: clearChatHistory by the owner of a stored document reports no error
\* and leaves the documents alone; with no session for the document it
\* leaves sessions and messages as they were, with one it removes the
\* session and all its messages
C15_ClearHistory ==
    [][(/\ last'.op = "clearChatHistory"
        /\ last'.documentId \in DOMAIN documents
        /\ documents[last'.documentId].user_id = last'.userId)
          => /\ last'.error = NoError
             /\ documents' = documents
             /\ IF \A s \in sessions : s.document_id # last'.documentId
                THEN sessions' = sessions /\ messages' = messages
                ELSE /\ \A s \in sessions' : s.document_id # last'.documentId
                     /\ \A s \in sessions : s.document_id = last'.documentId =>
                            \A m \in messages' : m.session_id # s.id]_vars

\* C23: every assistant message stored has, in its session, the user
\* message of the same invocation, stored before it: for the messages of
\* the running invocations and for those of the earlier chat
C23_ReplyHasPrompt ==
    /\ \A p \in Procs : \A m \in AssistantSaved(p) :
          \E u \in UserSaved(p) : u.session_id = m.session_id /\ u.id < m.id
    /\ \A m \in messages \cap ChattedMessages :
          m.role = "assistant" =>
              \E u \in messages \cap ChattedMessages :
                  u.role = "user" /\ u.session_id = m.session_id /\ u.id < m.id

\* C25: every chat session is of a stored document and every chat message
\* of a stored session; a document that was deleted has no session and no
\* message again, whatever an invocation for it does afterwards; an
\* invocation whose save is rejected by a foreign key ends its response
\* with an error event; and every invocation that has started is over
\* eventually, its response ended
C25_ReferentialIntegrity ==
    /\ [](/\ \A s \in sessions : s.document_id \in DOMAIN documents
          /\ \A m \in messages : \E s \in sessions : s.id = m.session_id
          /\ \A p \in Procs :
                /\ inv[p].error = ForeignKeyViolation =>
                      /\ inv[p].pc = "done"
                      /\ inv[p].ended
                      /\ inv[p].written =
                            Forwarded(p) \o <<ErrorEvent(ForeignKeyViolation.message)>>
                /\ inv[p].pc = "done" => inv[p].ended)
    /\ \A p \in {"p1"} : (inv[p].pc # "idle") ~> (inv[p].pc = "done" /\ inv[p].ended)

\* C25 happens: the document was deleted while the remote stream was in
\* flight, and the save of the assistant message was rejected
C25_Witness ==
    \E p \in Procs :
        /\ inv[p].document_id \notin DOMAIN documents
        /\ inv[p].role = "assistant"
        /\ inv[p].fullResponse # ""
        /\ inv[p].error = ForeignKeyViolation
        /\ inv[p].ended
        /\ sessions = {}
        /\ messages = {}

-----------------------------------------------------------------------------
(* Properties of the document directory *)

\* the latest handler was a getStatus that returned values for a row with a
\* Logos reference
StatusRefreshed(r) ==
    /\ r.op = "getStatus"
    /\ r.error = NoError
    /\ r.documentId \in DOMAIN documents
    /\ documents[r.documentId].logos_id # NULL

\* C9: getStatus leaves the local status equal to the remote one and returns
\* the remote values; when it wrote, the whole row matches them; and a second
\* getStatus with no remote change in between writes nothing and returns
\* the same values
C9_RefreshIdempotent ==
    /\ StatusRefreshed(last) =>
          /\ last.result = getDocumentStatus(documents[last.documentId].logos_id)
          /\ documents[last.documentId].status = last.result.status
          /\ last.wrote => StatusOf(documents[last.documentId]) = last.result
    /\ (StatusRefreshed(last) /\ StatusRefreshed(prev) /\ prev.documentId = last.documentId) =>
          /\ ~last.wrote
          /\ last.result = prev.result

\* C9 happens: a getStatus that wrote the row is followed by a second one
C9_Witness ==
    /\ StatusRefreshed(last)
    /\ StatusRefreshed(prev)
    /\ prev.documentId = last.documentId
    /\ prev.wrote

\* C24: after a getStatus that returned values for a row with a Logos
\* reference, the row's status, summary, classification and error message
\* are the values returned
C24_RowEqualsReturned ==
    StatusRefreshed(last) => StatusOf(documents[last.documentId]) = last.result

\* C24 as amended: a getStatus that returns values for a row with a Logos
\* reference returns the values of the Logos service and leaves the row's
\* status equal to the one returned; if the status returned differs from
\* the one stored, the row's summary, classification and error message are
\* the values returned as well, and if it does not, the row is left as it
\* was, whatever summary, classification and error message were returned
C24_RowFollowsStatus ==
    [][(/\ last'.op = "getStatus"
        /\ last'.error = NoError
        /\ last'.documentId \in DOMAIN documents
        /\ documents[last'.documentId].logos_id # NULL)
          => /\ last'.result.status =
                    toUpperCase(remoteDocs[documents[last'.documentId].logos_id].status)
             /\ last'.result.summary = remoteDocs[documents[last'.documentId].logos_id].summary
             /\ documents'[last'.documentId].status = last'.result.status
             /\ IF documents[last'.documentId].status # last'.result.status
                THEN StatusOf(documents'[last'.documentId]) = last'.result
                ELSE documents' = documents]_vars

\* C24 happens: getStatus has returned a summary other than the row's,
\* the statuses being equal
C24_Witness ==
    /\ StatusRefreshed(last)
    /\ last.result.status = documents[last.documentId].status
    /\ last.result.summary # documents[last.documentId].summary

\* the latest handler was a getStatus by the owner of a row with no Logos
\* reference
StatusOfUnreferenced ==
    /\ last.op = "getStatus"
    /\ last.documentId \in DOMAIN documents
    /\ documents[last.documentId].user_id = last.userId
    /\ documents[last.documentId].logos_id = NULL

\* C10: getStatus by the owner of a document with no remote reference
\* returns the row's status, summary, classification and error message,
\* calls the remote service not at all and writes nothing
C10_LocalFieldsNoCall ==
    StatusOfUnreferenced =>
        /\ last.error = NoError
        /\ last.result = StatusOf(documents[last.documentId])
        /\ last.calls = <<>>
        /\ ~last.wrote

\* C10 happens: the owner asked for the status of a document with no
\* remote reference
C10_Witness == StatusOfUnreferenced

\* C11: delete by the owner of a stored document removes the row, its chat
\* session and the session's messages and reports no error, whatever the
\* remote delete came to; no other row is touched
C11_DeleteAlwaysLocal ==
    [][(/\ last'.op = "delete"
        /\ last'.documentId \in DOMAIN documents
        /\ documents[last'.documentId].user_id = last'.userId)
          => /\ last'.error = NoError
             /\ DOMAIN documents' = DOMAIN documents \ {last'.documentId}
             /\ \A d \in DOMAIN documents' : documents'[d] = documents[d]
             /\ \A s \in sessions' : s.document_id # last'.documentId
             /\ \A m \in messages' : \E s \in sessions' : s.id = m.session_id
             /\ \A s \in sessions : s.document_id = last'.documentId =>
                    \A m \in messages' : m.session_id # s.id]_vars

\* C11 happens: the owner deleted a document that had a chat session with
\* messages, the remote delete was tried and failed (the Logos service
\* still holds the document), and the handler reported no error
C11_Witness ==
    /\ last.op = "delete"
    /\ last.error = NoError
    /\ last.documentId \notin DOMAIN documents
    /\ Len(last.calls) = 1
    /\ last.calls[1].logos_id \in DOMAIN remoteDocs
    /\ nextId = 4
    /\ sessions = {}
    /\ messages = {}

Guarded == {"get", "getStatus", "sync", "delete"}

\* C13: get, getStatus, sync and delete on an absent id fail with NotFound,
\* on another user's document with Forbidden, in both cases with no remote
\* call and no change of any row; the list holds only rows of the caller
C13_OwnershipIsolation ==
    [][/\ (last'.op \in Guarded /\ last'.documentId \notin DOMAIN documents)
            => /\ last'.error = NotFoundException
               /\ last'.calls = <<>>
               /\ UNCHANGED <<documents, sessions, messages, remoteDocs>>
       /\ (/\ last'.op \in Guarded
           /\ last'.documentId \in DOMAIN documents
           /\ documents[last'.documentId].user_id # last'.userId)
            => /\ last'.error = ForbiddenException
               /\ last'.calls = <<>>
               /\ UNCHANGED <<documents, sessions, messages, remoteDocs>>
       /\ last'.op = "list"
            => \A d \in last'.result.ids :
                  d \in DOMAIN documents /\ documents[d].user_id = last'.userId]_vars

\* C13 happens: a sync of an absent id was refused, then a delete of another
\* user's document that has a Logos reference and a chat session
C13_Witness ==
    /\ prev.op = "sync"
    /\ prev.error = NotFoundException
    /\ last.op = "delete"
    /\ last.error = ForbiddenException
    /\ last.documentId \in DOMAIN documents
    /\ documents[last.documentId].logos_id # NULL
    /\ SessionsOf(last.documentId) # {}

\* C26: after an upload call, successful or failed, every remote document
\* that the call created is the logos_id of exactly one stored document
C26_UploadAgrees ==
    last.op = "upload" =>
        \A i \in DOMAIN last.calls :
            last.calls[i].logos_id \in DOMAIN remoteDocs =>
                Cardinality({d \in DOMAIN documents :
                                documents[d].logos_id = last.calls[i].logos_id}) = 1

====
